---- MODULE Spec2Model ----
(***************************************************************************)
(* Model of cupidarchive's top-level reader (src/arc_reader.c): format     *)
(* detection over bounded streams and decompression filters, reader        *)
(* construction and close.  The stream, filter and TAR layers behind it    *)
(* are modelled from their documented contract (arc_filter.h and the       *)
(* design specification).                                                  *)
(***************************************************************************)
EXTENDS Integers, Sequences, FiniteSets, TLC

VARIABLES
    streams,            \* stream table of the current call: "base" and "filter"
    reader,             \* the ArcReader returned by the last open, or NoReader
    call,               \* what the last API call did (its inputs and its result)
    phase,              \* "idle" | "open" | "failed" | "closed"
    xzAvailable,        \* build flag: liblzma linked in
    filterSeekAny,      \* build flag: filters honour seeks to offsets other than 0
    readerClosesStream, \* build flag: the format close also closes reader->stream
    nreads,             \* reads issued on the reader's stream after the open
    lastRead,           \* result of the last arc_stream_read issued by a client
    failLog,            \* <<failure kind, returned value>> of the failed opens so far
    opens,              \* number of open calls so far
    tar                 \* state of the TAR reader walk (SpecTar)

vars == <<streams, reader, call, phase, xzAvailable, filterSeekAny,
          readerClosesStream, nreads, lastRead, failLog, opens, tar>>

----------------------------------------------------------------------------
(* Bounds of the model *)

MaxStartPos == 1
MaxReads == 10
MaxOpens == 2
MaxEntries == 2

(* Program constants *)

ARC_FORMAT_TAR == 0
ARC_FORMAT_ZIP == 1
MagicLen == 4
HeaderLen == 512
UstarOffset == 257
LimitFactor == 10

Min(a, b) == IF a < b THEN a ELSE b

----------------------------------------------------------------------------
(* Bounded streams (arc_stream.c, modelled from the documented contract) *)

NoStream ==
    [kind |-> "none", data |-> <<>>, pos |-> 0, bytes_read |-> 0,
     byte_limit |-> 0, closes |-> 0, primed |-> FALSE, start |-> 0]

IsFilter(s) == s.kind \in {"gzip", "bzip2", "xz"}

\* A read result: n is the C return value (-1 on failure), buf the bytes stored.
ReadFail(st, e) == [st |-> st, n |-> -1, buf |-> <<>>, err |-> e]

\* One read on a stream record that holds its own bytes.  A byte_limit of 0
\* means no limit; otherwise a read that would cross the limit fails.
ReadBytes(s, n, want) ==
    IF s.byte_limit > 0 /\ s.bytes_read + want > s.byte_limit
    THEN [s |-> s, n |-> -1, buf |-> <<>>, err |-> "LimitExceeded"]
    ELSE [s |-> [s EXCEPT !.pos = @ + want, !.bytes_read = @ + want],
          n |-> want,
          buf |-> SubSeq(s.data, s.pos + 1, s.pos + want),
          err |-> IF want = 0 /\ n > 0 THEN "eof" ELSE "ok"]

LimitedRead(s, n) == ReadBytes(s, n, Min(n, Len(s.data) - s.pos))

\* arc_stream_read: a filter first pulls the compressed input from the stream
\* it wraps (lazily, on its first read), then serves decompressed bytes.
\* The table after read result r on stream id, with the wrapped stream as u.
Served(st, id, u, r) ==
    [st |-> [st EXCEPT !["base"] = u, ![id] = r.s],
     n |-> r.n, buf |-> r.buf, err |-> r.err]

\* The filter's refill: nothing once primed, else the wrapped stream's rest.
Pull(u, primed) ==
    IF primed
    THEN [s |-> u, n |-> 0, buf |-> <<>>, err |-> "ok"]
    ELSE LimitedRead(u, Len(u.data) - u.pos)

FilterRead(st, id, n, pull) ==
    IF pull.n < 0
    THEN ReadFail(st, pull.err)
    ELSE Served(st, id, pull.s, LimitedRead([st[id] EXCEPT !.primed = TRUE], n))

arc_stream_read(st, id, n) ==
    IF ~IsFilter(st[id])
    THEN Served(st, id, st["base"], LimitedRead(st[id], n))
    ELSE FilterRead(st, id, n, Pull(st["base"], st[id].primed))

arc_stream_tell(st, id) == st[id].pos

\* arc_stream_seek(stream, target, SEEK_SET).  A filter supports the seek back
\* to its opening position (it restarts decompression from the wrapped
\* stream's opening offset); other targets only when the build supports them.
arc_stream_seek(st, id, target) ==
    IF ~IsFilter(st[id])
    THEN [st EXCEPT ![id].pos = target]
    ELSE IF target = 0
    THEN [st EXCEPT ![id].pos = 0, ![id].primed = FALSE,
                    !["base"].pos = st[id].start]
    ELSE IF filterSeekAny /\ target <= Len(st[id].data)
    THEN [st EXCEPT ![id].pos = target]
    ELSE st

\* arc_stream_close: releases the stream itself; a filter does not close the
\* stream it wraps.
arc_stream_close(st, id) == [st EXCEPT ![id].closes = @ + 1]

----------------------------------------------------------------------------
(* Decompression filters (arc_filter.h; the codecs are modelled as a        *)
(* run-length container: the wrapper's magic, then <<count, byte>> pairs)   *)

GzipMagic == <<31, 139>>
Bzip2Magic == <<66, 90, 104>>
XzMagic == <<253, 55, 122, 88>>

MagicOf(kind) ==
    CASE kind = "gzip" -> GzipMagic
      [] kind = "bzip2" -> Bzip2Magic
      [] kind = "xz" -> XzMagic

RECURSIVE Decompress(_)
Decompress(z) ==
    IF Len(z) < 2 THEN <<>>
    ELSE [i \in 1..z[1] |-> z[2]] \o Decompress(SubSeq(z, 3, Len(z)))

RunLength(x) ==
    CHOOSE k \in 1..Min(255, Len(x)) :
        /\ \A i \in 1..k : x[i] = x[1]
        /\ (k = Min(255, Len(x)) \/ x[k + 1] # x[1])

RECURSIVE Compress(_)
Compress(x) ==
    IF x = <<>> THEN <<>>
    ELSE <<RunLength(x), x[1]>> \o Compress(SubSeq(x, RunLength(x) + 1, Len(x)))

\* arc_filter_gzip / arc_filter_bzip2 / arc_filter_xz (underlying, byte_limit):
\* the new stream of the table, or the table unchanged (NULL) when the codec
\* is not available.  byte_limit is stored as given: 0 = unlimited.
\* The compressed body a filter of `kind` built over u decodes.
Body(u, kind) == SubSeq(u.data, u.pos + Len(MagicOf(kind)) + 1, Len(u.data))

arc_filter(st, kind, byte_limit) ==
    IF kind = "xz" /\ ~xzAvailable
    THEN st
    ELSE [st EXCEPT !["filter"] =
             [kind |-> kind, data |-> Decompress(Body(st["base"], kind)),
              pos |-> 0, bytes_read |-> 0, byte_limit |-> byte_limit,
              closes |-> 0, primed |-> FALSE, start |-> st["base"].pos]]

----------------------------------------------------------------------------
(* detect_format (arc_reader.c) *)

\* magic[] holds n valid bytes; the C tests short-circuit on n.
IsGzip(magic, n) == magic[1] = 31 /\ magic[2] = 139
IsBzip2(magic, n) == magic[1] = 66 /\ magic[2] = 90 /\ n >= 3 /\ magic[3] = 104
IsXz(magic, n) ==
    magic[1] = 253 /\ magic[2] = 55 /\ n >= 4 /\ magic[3] = 122 /\ magic[4] = 88

ZipSignatures == {67324752, 101010256, 33639248}  \* 0x04034b50 0x06054b50 0x02014b50

LittleEndian32(magic) ==
    magic[1] + magic[2] * 256 + magic[3] * 65536 + magic[4] * 16777216

IsZip(magic, n) ==
    /\ n >= 2 /\ magic[1] = 80 /\ magic[2] = 75
    /\ n >= 4
    /\ LittleEndian32(magic) \in ZipSignatures

isprint(c) == 32 <= c /\ c <= 126

ustar == <<117, 115, 116, 97, 114>>
USTAR == <<85, 83, 84, 65, 82>>

\* memcmp(header + at, word, 5) == 0
memcmp5(header, at, word) == \A i \in 1..5 : header[at + i] = word[i]

IsTarHeader_shifted(header) ==
    \/ memcmp5(header, UstarOffset - 1, ustar)
    \/ memcmp5(header, UstarOffset - 1, USTAR)
    \/ (header[1] # 0 /\ isprint(header[1]))

IsTarHeader(header) ==
    \/ memcmp5(header, UstarOffset, ustar)
    \/ memcmp5(header, UstarOffset, USTAR)
    \/ (header[1] # 0 /\ isprint(header[1]))

Detected(st, format, dec, sid) ==
    [st |-> st, format |-> format, decompressed |-> dec, stream |-> sid]

\* Lines 230-244: the TAR test on the block r read from `sid` at pos2.
DetectTar(sid, pos2, r, dec) ==
    IF r.n = HeaderLen /\ IsTarHeader(r.buf)
    THEN Detected(arc_stream_seek(r.st, sid, pos2), ARC_FORMAT_TAR, dec, sid)
    ELSE Detected(arc_stream_seek(r.st, sid, pos2), -1, dec, sid)

\* Lines 213-244: the archive format, on `sid` (the raw stream or the filter).
\* pos is still the position recorded on the raw stream at entry.
DetectArchive(st, sid, pos, magic, n, dec) ==
    IF IsZip(magic, n)
    THEN Detected(arc_stream_seek(st, sid, pos), ARC_FORMAT_ZIP, dec, sid)
    ELSE DetectTar(sid, arc_stream_tell(st, sid),
                   arc_stream_read(st, sid, HeaderLen), dec)

\* Lines 176-180: the prefix re-read from the filter.
DetectFiltered(pos, r) ==
    IF r.n < 2
    THEN Detected(r.st, -1, "filter", "filter")
    ELSE DetectArchive(r.st, "filter", pos, r.buf, r.n, "filter")

\* Lines 172-175: st2 is the table after the filter's constructor.
DetectBuilt(st2, pos) ==
    IF st2["filter"].kind = "none"
    THEN Detected(st2, -1, "none", "base")
    ELSE DetectFiltered(pos, arc_stream_read(st2, "filter", MagicLen))

\* Lines 169-207: one compression branch (the three are alike).
DetectCompressed(st, pos, kind) ==
    DetectBuilt(arc_filter(arc_stream_seek(st, "base", pos), kind, 0), pos)

\* The compression the prefix selects (lines 170, 183, 196), or "none".
Compression(magic, n) ==
    IF IsGzip(magic, n) THEN "gzip"
    ELSE IF IsBzip2(magic, n) THEN "bzip2"
    ELSE IF IsXz(magic, n) THEN "xz"
    ELSE "none"

DetectPrefix(pos, r, kind) ==
    IF kind # "none"
    THEN DetectCompressed(r.st, pos, kind)
    ELSE DetectArchive(arc_stream_seek(r.st, "base", pos), "base", pos,
                       r.buf, r.n, "none")

DetectRead(pos, r) ==
    IF r.n < 2
    THEN Detected(r.st, -1, "none", "base")
    ELSE DetectPrefix(pos, r, Compression(r.buf, r.n))

detect_format(st) ==
    DetectRead(arc_stream_tell(st, "base"), arc_stream_read(st, "base", MagicLen))

----------------------------------------------------------------------------
(* Inputs: archive images and the files that wrap them *)

\* len bytes: `head`, then NUL filler, with `word` at byte offset `at`
\* (at < 0: no word).
Image(len, head, at, word) ==
    [i \in 1..len |->
        IF i <= Len(head) THEN head[i]
        ELSE IF at >= 0 /\ i > at /\ i <= at + Len(word) THEN word[i - at]
        ELSE 0]

Plains ==
    { <<>>, <<97>>, <<80, 75>>, <<80, 75, 3>>,
      <<80, 75, 3, 4>>, <<80, 75, 5, 6>>, <<80, 75, 1, 2>>,
      Image(HeaderLen, <<80, 75, 7, 8>>, -1, <<>>),
      Image(HeaderLen, <<80, 75, 4, 3>>, -1, <<>>),
      Image(HeaderLen, <<0>>, UstarOffset, ustar),
      Image(HeaderLen, <<128>>, UstarOffset, USTAR),
      Image(HeaderLen, <<0>>, UstarOffset, <<117, 115, 116, 97, 82>>),
      Image(HeaderLen, <<0>>, UstarOffset - 1, ustar),
      Image(HeaderLen, <<0>>, UstarOffset + 1, USTAR),
      Image(HeaderLen, <<0>>, -1, <<>>),
      Image(HeaderLen, <<97>>, -1, <<>>),
      Image(HeaderLen, <<32>>, -1, <<>>),
      Image(HeaderLen, <<126>>, -1, <<>>),
      Image(HeaderLen, <<127>>, -1, <<>>),
      Image(HeaderLen, <<31>>, -1, <<>>),
      Image(HeaderLen, <<66, 90, 120>>, -1, <<>>),
      Image(HeaderLen, <<253, 55, 122, 0>>, -1, <<>>),
      Image(HeaderLen - 1, <<97>>, UstarOffset, ustar),
      Image(HeaderLen + MagicLen, <<128, 0, 0, 0, 0>>, UstarOffset + MagicLen, ustar),
      Image(HeaderLen + MagicLen, <<0, 0, 0, 0, 97>>, -1, <<>>),
      Image(2 * HeaderLen, <<97>>, UstarOffset, ustar),
      Image(2 * HeaderLen, <<97, 97, 97, 97, 97>>, UstarOffset, ustar) }

Wrappers == {"gzip", "bzip2", "xz"}

Wrap(kind, x) == MagicOf(kind) \o Compress(x)

Files == Plains \cup { Wrap(k, x) : k \in Wrappers, x \in Plains }

\* The failure kinds an open can end in.
ErrFiles == { <<>>, <<80, 75>>, Wrap("xz", <<80, 75, 3, 4>>), <<80, 75, 3, 4>> }

----------------------------------------------------------------------------
(* Readers: create_reader, arc_open_path, arc_open_stream, arc_close *)

NoReader == [format |-> -1, stream |-> "none"]

NoStreams == [id \in {"base", "filter"} |-> NoStream]

NoCall ==
    [api |-> "none", start |-> 0, size |-> 0, result |-> "none", format |-> -1,
     final |-> "none", handoff |-> 0, cause |-> "none"]

\* create_reader: arc_tar_open / arc_zip_open on the stream; `ok` is whether
\* the format's constructor returned a reader.
create_reader(stream, format, ok) ==
    IF format \in {ARC_FORMAT_TAR, ARC_FORMAT_ZIP} /\ ok
    THEN [format |-> format, stream |-> stream]
    ELSE NoReader

\* The byte limit arc_open_path gives the stream of a file of st_size bytes.
BaseLimit_wide(st_size) == st_size * LimitFactor * LimitFactor

BaseLimit(st_size) == st_size * LimitFactor

BaseStream(kind, data, pos, limit) ==
    [kind |-> kind, data |-> data, pos |-> pos, bytes_read |-> 0,
     byte_limit |-> limit, closes |-> 0, primed |-> FALSE, start |-> 0]

\* Why detect_format returned -1, from the prefix read r it started with.
FailureOf(r) ==
    IF r.n >= 2 /\ IsXz(r.buf, r.n) /\ ~xzAvailable
    THEN "UnsupportedFeature"
    ELSE "UnrecognizedFormat"

FailureKind(st0) == FailureOf(arc_stream_read(st0, "base", MagicLen))

Outcome(st, rd, c) == [st |-> st, reader |-> rd, call |-> c]

Final(d) == IF d.decompressed # "none" THEN d.decompressed ELSE "base"

\* Lines 131-134: the streams arc_open_path closes when no reader was built.
CloseChain(d) ==
    arc_stream_close(IF d.decompressed # "none"
                     THEN arc_stream_close(d.st, d.decompressed)
                     ELSE d.st, "base")

\* Lines 120-138, with d the result of detect_format and rd of create_reader.
PathOutcome(c1, cause, d, final, rd) ==
    IF d.format < 0
    THEN Outcome(arc_stream_close(d.st, "base"), NoReader,
                 [c1 EXCEPT !.result = "NULL", !.cause = cause])
    ELSE IF rd = NoReader
    THEN Outcome(CloseChain(d), NoReader,
                 [c1 EXCEPT !.result = "NULL", !.cause = "ReaderFailure",
                            !.final = final,
                            !.handoff = arc_stream_tell(d.st, final)])
    ELSE Outcome(d.st, rd,
                 [c1 EXCEPT !.result = "reader", !.final = final,
                            !.handoff = arc_stream_tell(d.st, final)])

PathDetected(c0, st0, d, readerOk) ==
    PathOutcome([c0 EXCEPT !.format = d.format], FailureKind(st0), d, Final(d),
                create_reader(Final(d), d.format, readerOk))

PathStream(file) ==
    [NoStreams EXCEPT !["base"] = BaseStream("fd", file, 0, BaseLimit(Len(file)))]

\* arc_open_path from the fstat on (lines 103-138), and its earlier failures.
arc_open_path(file, ioOk, readerOk) ==
    IF ~ioOk
    THEN Outcome(NoStreams, NoReader,
                 [NoCall EXCEPT !.api = "path", !.size = Len(file),
                                !.result = "NULL", !.cause = "IOFailure"])
    ELSE PathDetected([NoCall EXCEPT !.api = "path", !.size = Len(file)],
                      PathStream(file), detect_format(PathStream(file)), readerOk)

\* Lines 149-154, with d the result of detect_format and rd of create_reader.
StreamOutcome(c1, cause, d, final, rd) ==
    IF d.format < 0
    THEN Outcome(d.st, NoReader, [c1 EXCEPT !.result = "NULL", !.cause = cause])
    ELSE Outcome(d.st, rd,
                 [c1 EXCEPT !.result = IF rd = NoReader THEN "NULL" ELSE "reader",
                            !.cause = IF rd = NoReader THEN "ReaderFailure"
                                      ELSE "none",
                            !.final = final,
                            !.handoff = arc_stream_tell(d.st, final)])

StreamDetected(c0, st0, d, readerOk) ==
    StreamOutcome([c0 EXCEPT !.format = d.format], FailureKind(st0), d, Final(d),
                  create_reader(Final(d), d.format, readerOk))

\* arc_open_stream on a caller's stream (lines 141-155).
arc_open_stream(stream, readerOk) ==
    StreamDetected([NoCall EXCEPT !.api = "stream", !.start = stream.pos,
                                  !.size = Len(stream.data)],
                   [NoStreams EXCEPT !["base"] = stream],
                   detect_format([NoStreams EXCEPT !["base"] = stream]), readerOk)

\* arc_tar_close / arc_zip_close: the reader holds one stream and no record
\* of who owns it; the format's close releases that stream or leaves it.
format_close(st, rd) ==
    IF readerClosesStream THEN arc_stream_close(st, rd.stream) ELSE st

\* arc_close (lines 74-91): dispatch on the format; an unknown format tries
\* both closes.
arc_close(st, rd) ==
    IF rd = NoReader THEN st
    ELSE IF rd.format \in {ARC_FORMAT_TAR, ARC_FORMAT_ZIP} THEN format_close(st, rd)
    ELSE format_close(format_close(st, rd), rd)

----------------------------------------------------------------------------
(* The state machine *)

NoRead == [stream |-> "none", n |-> 0, err |-> "none"]

NoTar ==
    [on |-> FALSE, sizes |-> <<>>, pos |-> 0, cur |-> 0, sub |-> -1,
     yielded |-> <<>>, nexts |-> 0, how |-> "none", prev |-> "none", rc |-> 0,
     last |-> 0]

Flags == <<xzAvailable, filterSeekAny, readerClosesStream>>

InitCommon ==
    /\ streams = NoStreams
    /\ reader = NoReader
    /\ call = NoCall
    /\ phase = "idle"
    /\ nreads = 0
    /\ lastRead = NoRead
    /\ failLog = {}
    /\ opens = 0

Init ==
    /\ InitCommon
    /\ tar = NoTar
    /\ xzAvailable \in BOOLEAN
    /\ filterSeekAny \in BOOLEAN
    /\ readerClosesStream \in BOOLEAN

\* The state an open call leaves.
Opened(o) ==
    /\ streams' = o.st
    /\ reader' = o.reader
    /\ call' = o.call
    /\ phase' = IF o.reader = NoReader THEN "failed" ELSE "open"
    /\ nreads' = 0
    /\ lastRead' = NoRead
    /\ opens' = opens + 1
    /\ UNCHANGED <<Flags, tar>>

\* A caller's memory stream over `file`, already advanced to offset p.
CallerStream(file, p, limit) ==
    BaseStream("mem", [i \in 1..p |-> 80] \o file, p, limit)

CallerLimits == {0, HeaderLen}

OpenPathFrom(F) ==
    \E file \in F, ioOk \in BOOLEAN, readerOk \in BOOLEAN :
        Opened(arc_open_path(file, ioOk, readerOk))

OpenStreamFrom(F) ==
    \E file \in F, p \in 0..MaxStartPos, limit \in CallerLimits,
       readerOk \in BOOLEAN :
        Opened(arc_open_stream(CallerStream(file, p, limit), readerOk))

OpenPath == phase = "idle" /\ OpenPathFrom(Files) /\ UNCHANGED failLog

OpenStream == phase = "idle" /\ OpenStreamFrom(Files) /\ UNCHANGED failLog

Close ==
    /\ phase = "open"
    /\ streams' = arc_close(streams, reader)
    /\ reader' = NoReader
    /\ phase' = "closed"
    /\ UNCHANGED <<call, Flags, nreads, lastRead, failLog, opens, tar>>

Next == OpenPath \/ OpenStream \/ Close

Spec == Init /\ [][Next]_vars

----------------------------------------------------------------------------
(* Properties *)

base == streams["base"]
filt == streams["filter"]

Returned == phase \in {"open", "failed", "closed"}

\* The bytes the opened stream held from its position at entry on.
RawImage == SubSeq(base.data, call.start + 1, Len(base.data))

StartsWith(x, m) == Len(x) >= Len(m) /\ SubSeq(x, 1, Len(m)) = m

\* C1: whenever detection succeeds, the stream handed to the format parser is
\* at the first byte of the archive: at the entry position for the raw
\* stream, at decompressed offset 0 for a filter.
C1_HandoffAtArchiveStart ==
    (Returned /\ call.result = "reader") =>
        /\ call.final = "base" => call.handoff = call.start
        /\ call.final = "filter" => call.handoff = 0

\* C3: a filter built by detection (byte_limit 0) never serves more
\* decompressed bytes than the limit left on the stream it wraps.
C3_FilterInheritsLimit ==
    (Returned /\ filt.kind # "none" /\ base.byte_limit > 0) =>
        filt.bytes_read <= base.byte_limit

\* C4: after arc_open_stream returns, reader or not, the caller's stream is
\* at the position it had before the call.
C4_PositionRestored ==
    (phase \in {"open", "failed"} /\ call.api = "stream") =>
        arc_stream_tell(streams, "base") = call.start

\* What detection answers on an unlimited raw stream holding x.
RawOutcome(x) ==
    detect_format([NoStreams EXCEPT !["base"] = BaseStream("mem", x, 0, 0)]).format

\* C5: a gzip-, bzip2- or xz-wrapped stream is detected as the raw stream of
\* its decompressed bytes would be (the TAR block is decompressed bytes
\* 0..511).
C5_SameOutcomeAsRaw ==
    (Returned /\ filt.kind # "none" /\ (call.api = "path" \/ base.byte_limit = 0)) =>
        call.format = RawOutcome(filt.data)

\* C6: arc_close releases exactly the streams the reader owns, once each: the
\* whole chain for a path reader, only the filter for a stream reader (stated
\* for the builds whose format close releases the stream it holds; in the
\* others arc_close releases no stream at all).
C6_CloseReleasesOwned ==
    (phase = "closed" /\ readerClosesStream) =>
        /\ base.closes = (IF call.api = "path" THEN 1 ELSE 0)
        /\ filt.kind # "none" => filt.closes = 1

\* C7: when an open returns no reader, every stream the call constructed has
\* been closed exactly once and the caller's stream has not been closed.
C7_FailedOpenReleases ==
    (phase = "failed" /\ call.cause # "IOFailure") =>
        /\ base.closes = (IF call.api = "path" THEN 1 ELSE 0)
        /\ filt.kind # "none" => filt.closes = 1

Uncompressed(x) ==
    /\ ~StartsWith(x, GzipMagic)
    /\ ~StartsWith(x, Bzip2Magic)
    /\ ~StartsWith(x, XzMagic)

BlockReadable(x, limit) ==
    /\ Len(x) >= HeaderLen
    /\ (limit = 0 \/ Min(MagicLen, Len(x)) + HeaderLen <= limit)

ExpectedRaw(x, limit) ==
    IF Len(x) < 2 THEN -1
    ELSE IF Len(x) >= 4 /\ SubSeq(x, 1, 4) \in
                {<<80, 75, 3, 4>>, <<80, 75, 5, 6>>, <<80, 75, 1, 2>>}
    THEN ARC_FORMAT_ZIP
    ELSE IF /\ BlockReadable(x, limit)
            /\ \/ SubSeq(x, 258, 262) \in {ustar, USTAR}
               \/ x[1] \in 32..126
    THEN ARC_FORMAT_TAR
    ELSE -1

\* C10: on an uncompressed stream the outcome is decided by the leading
\* bytes: failure under 2 bytes, ZIP on one of the three signatures, else TAR
\* when a whole block is readable and carries ustar/USTAR at 257 or starts
\* with a printable byte, else unrecognized.
C10_RawOutcome ==
    (Returned /\ call.cause # "IOFailure" /\ Uncompressed(RawImage)) =>
        call.format = ExpectedRaw(RawImage, base.byte_limit)

C10_Witness ==
    /\ Returned /\ Uncompressed(RawImage)
    /\ call.format = ARC_FORMAT_TAR
    /\ RawImage[1] = 0

----------------------------------------------------------------------------
(* Reads on the opened reader's stream, up to the byte limit (SpecLimit) *)

LimitFiles ==
    { <<>>, <<80, 75, 3, 4>>,
      Image(HeaderLen, <<97>>, -1, <<>>),
      Wrap("gzip", <<80, 75, 3, 4>>),
      Wrap("gzip", Image(2 * HeaderLen, <<97>>, -1, <<>>)) }

OpenPathSmall == phase = "idle" /\ OpenPathFrom(LimitFiles) /\ UNCHANGED failLog

OpenStreamSmall == phase = "idle" /\ OpenStreamFrom(LimitFiles) /\ UNCHANGED failLog

ReadDone(id, r) ==
    /\ streams' = r.st
    /\ lastRead' = [stream |-> id, n |-> r.n, err |-> r.err]
    /\ nreads' = nreads + 1
    /\ UNCHANGED <<reader, call, phase, Flags, failLog, opens, tar>>

\* The format parser (or the client) reads a block from the reader's stream.
StreamRead ==
    /\ phase = "open"
    /\ nreads < MaxReads
    /\ ReadDone(reader.stream, arc_stream_read(streams, reader.stream, HeaderLen))

\* ... or rewinds it to where the archive starts.
StreamSeek ==
    /\ phase = "open"
    /\ streams' = arc_stream_seek(streams, reader.stream,
                                  IF reader.stream = "base" THEN call.start ELSE 0)
    /\ UNCHANGED <<reader, call, phase, Flags, nreads, lastRead, failLog, opens, tar>>

NextLimit == OpenPathSmall \/ OpenStreamSmall \/ StreamRead \/ StreamSeek

SpecLimit == Init /\ [][NextLimit]_vars

----------------------------------------------------------------------------
(* What a failed open tells its caller (SpecErr) *)

Logged ==
    failLog' = failLog \cup
        (IF call'.result = "NULL" THEN {<<call'.cause, call'.result>>} ELSE {})

OpenPathLogged ==
    /\ phase \in {"idle", "failed"}
    /\ opens < MaxOpens
    /\ OpenPathFrom(ErrFiles)
    /\ Logged

OpenStreamLogged ==
    /\ phase \in {"idle", "failed"}
    /\ opens < MaxOpens
    /\ OpenStreamFrom(ErrFiles)
    /\ Logged

NextErr == OpenPathLogged \/ OpenStreamLogged \/ Close

SpecErr == Init /\ [][NextErr]_vars

\* C8: opens that fail for different reasons (unrecognized format, I/O
\* failure, unsupported xz) return results the caller can tell apart.
C8_FailuresDistinguishable ==
    \A a \in failLog, b \in failLog :
        (a[1] # b[1] /\ {a[1], b[1]} \subseteq
            {"UnrecognizedFormat", "IOFailure", "UnsupportedFeature"})
        => a[2] # b[2]

----------------------------------------------------------------------------
(* Walking a TAR archive: arc_next / arc_open_data / arc_skip_data and the   *)
(* TAR reader behind them (SpecTar).  An archive is the sequence of its      *)
(* entries' sizes; offsets are byte offsets in the reader's stream.          *)

RoundUp(n) == ((n + HeaderLen - 1) \div HeaderLen) * HeaderLen

RECURSIVE HeaderOffset(_, _)
HeaderOffset(sizes, i) ==
    IF i <= 1 THEN 0
    ELSE HeaderOffset(sizes, i - 1) + HeaderLen + RoundUp(sizes[i - 1])

\* The entry whose header block starts at byte `at`, 0 when none does.
IndexAt(sizes, at) ==
    IF \E i \in 1..Len(sizes) : HeaderOffset(sizes, i) = at
    THEN CHOOSE i \in 1..Len(sizes) : HeaderOffset(sizes, i) = at
    ELSE 0

DataStart(t) == HeaderOffset(t.sizes, t.cur) + HeaderLen
DataEnd(t) == DataStart(t) + RoundUp(t.sizes[t.cur])

\* The header block at `at`: entry i, or the end of the archive (rc 1), or
\* no header at all (rc -1).
TarYield(t, at, i) ==
    IF i # 0
    THEN [t EXCEPT !.pos = at + HeaderLen, !.cur = i, !.sub = -1,
                   !.yielded = Append(@, i), !.nexts = @ + 1,
                   !.prev = t.how, !.how = "unread", !.rc = 0]
    ELSE [t EXCEPT !.pos = at, !.cur = 0, !.sub = -1, !.nexts = @ + 1,
                   !.prev = t.how, !.how = "none",
                   !.rc = IF at = HeaderOffset(t.sizes, Len(t.sizes) + 1)
                          THEN 1 ELSE -1]

TarParse(t, at) == TarYield(t, at, IndexAt(t.sizes, at))

\* next(): skip what is left of the current entry's data and padding, then
\* parse the header block there.
arc_tar_next(t) ==
    TarParse(t, IF t.cur > 0 /\ t.pos < DataEnd(t) THEN DataEnd(t) ELSE t.pos)

\* skip_data(): move past the current entry's data and padding.
arc_tar_skip_data(t) ==
    IF t.cur = 0
    THEN [t EXCEPT !.last = -1]
    ELSE [t EXCEPT !.pos = DataEnd(t), !.sub = -1, !.how = "skipped", !.last = 0]

\* open_data(): a substream over the entry's bytes, while the stream is still
\* at their start.
arc_tar_open_data(t) ==
    IF t.cur = 0 \/ t.pos # DataStart(t)
    THEN [t EXCEPT !.sub = -1, !.last = -1]
    ELSE [t EXCEPT !.sub = 0, !.how = "opened", !.last = 0]

\* The ZIP reader is outside the model: its calls report failure.
arc_zip_call(t) == [t EXCEPT !.rc = -1, !.nexts = @ + 1]

\* arc_next (lines 20-34): dispatch on the reader's format field.
arc_next_swapped(rd, t) ==
    IF rd = NoReader THEN [t EXCEPT !.rc = -1, !.nexts = @ + 1]
    ELSE IF rd.format = ARC_FORMAT_ZIP THEN arc_tar_next(t)
    ELSE IF rd.format = ARC_FORMAT_TAR THEN arc_zip_call(t)
    ELSE [t EXCEPT !.rc = -1, !.nexts = @ + 1]

arc_next(rd, t) ==
    IF rd = NoReader THEN [t EXCEPT !.rc = -1, !.nexts = @ + 1]
    ELSE IF rd.format = ARC_FORMAT_TAR THEN arc_tar_next(t)
    ELSE IF rd.format = ARC_FORMAT_ZIP THEN arc_zip_call(t)
    ELSE [t EXCEPT !.rc = -1, !.nexts = @ + 1]

\* arc_open_data (lines 44-57).
arc_open_data(rd, t) ==
    IF rd = NoReader THEN [t EXCEPT !.last = -1]
    ELSE IF rd.format = ARC_FORMAT_TAR THEN arc_tar_open_data(t)
    ELSE [t EXCEPT !.last = -1]

\* arc_skip_data (lines 59-72).
arc_skip_data(rd, t) ==
    IF rd = NoReader THEN [t EXCEPT !.last = -1]
    ELSE IF rd.format = ARC_FORMAT_TAR THEN arc_tar_skip_data(t)
    ELSE [t EXCEPT !.last = -1]

\* A read of up to n bytes on the entry's substream: it ends at the entry's
\* size and moves the reader's stream along.
SubRead(t, k) ==
    [t EXCEPT !.sub = @ + k, !.pos = DataStart(t) + t.sub + k,
              !.how = IF t.sub + k = t.sizes[t.cur] THEN "full" ELSE "partial"]

arc_data_read(t, n) == SubRead(t, Min(n, t.sizes[t.cur] - t.sub))

EntrySizes == {0, 1, HeaderLen, HeaderLen + 1}

Archives == UNION { [1..n -> EntrySizes] : n \in 1..MaxEntries }

InitTar ==
    /\ InitCommon
    /\ xzAvailable = TRUE
    /\ filterSeekAny = FALSE
    /\ readerClosesStream = TRUE
    /\ \E a \in Archives : tar = [NoTar EXCEPT !.on = TRUE, !.sizes = a]

TarFrame == UNCHANGED <<streams, reader, call, phase, Flags, nreads, lastRead,
                        failLog, opens>>

\* The reader arc_open_* built over the archive.
TarReader == [format |-> ARC_FORMAT_TAR, stream |-> "base"]

Walking == tar.on /\ tar.rc = 0

TarNext ==
    /\ Walking
    /\ tar' = arc_next(TarReader, tar)
    /\ TarFrame

TarSkipData ==
    /\ Walking
    /\ tar' = arc_skip_data(TarReader, tar)
    /\ TarFrame

TarOpenData ==
    /\ Walking /\ tar.sub < 0
    /\ tar' = arc_open_data(TarReader, tar)
    /\ TarFrame

TarReadData ==
    /\ Walking /\ tar.cur > 0 /\ tar.sub >= 0
    /\ tar.sub < tar.sizes[tar.cur]
    /\ \E n \in {1, HeaderLen} : tar' = arc_data_read(tar, n)
    /\ TarFrame

NextTar == TarNext \/ TarSkipData \/ TarOpenData \/ TarReadData

SpecTar == InitTar /\ [][NextTar]_vars

====
